---- MODULE Spec2Model ----
(***************************************************************************)
(* A model of src/htop.py: the curses system monitor                       *)
(* EnhancedSystemMonitor.  Text is a sequence of one-character strings,    *)
(* time is counted in ticks of 0.1 s (the granule of time.sleep(0.1) and   *)
(* of stdscr.timeout(100)).                                                *)
(***************************************************************************)
EXTENDS Integers, Sequences, FiniteSets, TLC

VARIABLES
    pc,             \* control point of run() (or of the function under call)
    key,            \* run(): the local `key`, result of the last getch()
    show_details,   \* self.show_details
    process_sort,   \* self.process_sort
    last_update,    \* run(): the local `last_update`
    current_time,   \* run(): the local `current_time`
    clock,          \* time.time(), in ticks
    height,         \* stdscr.getmaxyx()[0]
    width,          \* stdscr.getmaxyx()[1]
    info,           \* run(): the local `info`
    processes,      \* run(): the local `processes`
    row,            \* run(): the local `row`
    writes,         \* the addstr calls issued since the last stdscr.clear()
    rows_drawn,     \* display_processes: the process rows whose body ran
    comm_limit,     \* display_processes: the slice bound of comm_str
    error,          \* the exception that left run(), "none" while there is none
    arg,            \* argument of the function under call
    ret,            \* its return value
    iteration,      \* the iteration of the while loop under way, counted to 2
    toggles         \* the 'd' and 'D' keys getch() has given, modulo 2

vars == <<pc, key, show_details, process_sort, last_update, current_time, clock,
          height, width, info, processes, row, writes, rows_drawn, comm_limit,
          error, arg, ret, iteration, toggles>>

----------------------------------------------------------------------------
(* Python helpers *)

Min(a, b) == IF a < b THEN a ELSE b
Max(a, b) == IF a > b THEN a ELSE b

\* seq[:n], negative n counting from the end
SliceTo(seq, n) ==
    IF n >= 0 THEN SubSeq(seq, 1, Min(n, Len(seq)))
    ELSE SubSeq(seq, 1, Max(Len(seq) + n, 0))

\* f"{s:<n}": left-justified in at least n columns
PadLeft(s, n) == s \o [i \in 1..(n - Len(s)) |-> " "]

Digits == <<"0", "1", "2", "3", "4", "5", "6", "7", "8", "9">>

DigitChars == {Digits[i] : i \in 1..Len(Digits)}

DigitVal(c) == (CHOOSE i \in 1..Len(Digits) : Digits[i] = c) - 1

\* a character for which str.isdigit() holds and int() raises ValueError
SuperscriptTwo == "sup2"

\* str.isdigit(): not empty, every character a digit
IsDigitStr(s) ==
    /\ Len(s) > 0
    /\ \A i \in 1..Len(s) : s[i] \in DigitChars \cup {SuperscriptTwo}

NA == <<"N", "/", "A">>

----------------------------------------------------------------------------
(* Python's unbounded int and the float derived from it, kept exact: a      *)
(* number is the sequence of its base-1024 limbs, least significant first,  *)
(* without high zero limbs (0 is the empty sequence).  A float that is an   *)
(* int divided j times by 1024.0 is the pair of the limbs above the binary  *)
(* point (ip) and the j limbs below it (fp); the division is exact in a     *)
(* double while the int is below 2^53.                                      *)

Limb == 1024

RECURSIVE MulAdd(_, _, _)
\* n * m + c
MulAdd(n, m, c) ==
    IF n = <<>> THEN (IF c = 0 THEN <<>> ELSE <<c>>)
    ELSE LET v == Head(n) * m + c
         IN  <<v % Limb>> \o MulAdd(Tail(n), m, v \div Limb)

RECURSIVE ParseDigits(_, _)
ParseDigits(s, acc) ==
    IF s = <<>> THEN acc
    ELSE ParseDigits(Tail(s), MulAdd(acc, 10, DigitVal(Head(s))))

\* int(s) for a str that passed isdigit(): ok is FALSE when int raises
\* ValueError, on a digit character that is no decimal digit
ParseInt(s) ==
    IF \E i \in 1..Len(s) : s[i] \notin DigitChars THEN [ok |-> FALSE]
    ELSE [ok |-> TRUE, val |-> ParseDigits(s, <<>>)]

RECURSIVE BigToInt(_)
BigToInt(n) == IF n = <<>> THEN 0 ELSE Head(n) + Limb * BigToInt(Tail(n))

RECURSIVE DecInt(_)
\* str(i) for an int i >= 0
DecInt(i) ==
    IF i < 10 THEN <<Digits[i + 1]>>
    ELSE DecInt(i \div 10) \o <<Digits[(i % 10) + 1]>>

\* kb_val /= 1024.0
Div1024(v) ==
    IF v.ip = <<>> THEN [ip |-> <<>>, fp |-> v.fp \o <<0>>]
    ELSE [ip |-> Tail(v.ip), fp |-> v.fp \o <<Head(v.ip)>>]

\* kb_val <= 1024.0 in the place of kb_val < 1024.0
Below1024_Le(v) ==
    \/ Len(v.ip) <= 1
    \/ v.ip = <<0, 1>> /\ \A i \in 1..Len(v.fp) : v.fp[i] = 0

\* kb_val < 1024.0
Below1024(v) == Len(v.ip) <= 1

RECURSIVE Times10(_, _)
\* ten times the fraction fp: the digit carried above the point, and the rest
Times10(fp, c) ==
    IF fp = <<>> THEN [t |-> c, rem |-> <<>>]
    ELSE LET v == Head(fp) * 10 + c
             r == Times10(Tail(fp), v \div Limb)
         IN  [t |-> r.t, rem |-> <<v % Limb>> \o r.rem]

\* f"{kb_val:.1f}": one decimal place, correctly rounded, ties to even
FormatFixed1(v) ==
    LET m     == Times10(v.fp, 0)
        n     == Len(m.rem)
        half  == Limb \div 2
        above == /\ n > 0
                 /\ \/ m.rem[n] > half
                    \/ m.rem[n] = half /\ \E i \in 1..(n - 1) : m.rem[i] # 0
        tie   == n > 0 /\ m.rem[n] = half /\ \A i \in 1..(n - 1) : m.rem[i] = 0
        up    == above \/ (tie /\ m.t % 2 = 1)
        t     == IF up THEN m.t + 1 ELSE m.t
        whole == BigToInt(v.ip) + (IF t = 10 THEN 1 ELSE 0)
    IN  DecInt(whole) \o <<".", Digits[(t % 10) + 1]>>

LoopUnits == << <<"K", "B">>, <<"M", "B">>, <<"G", "B">>, <<"T", "B">> >>

LastUnit == <<"P", "B">>

RECURSIVE FormatLoop(_, _)
\* the for loop over the units, from the u-th on
FormatLoop(v, u) ==
    IF u > Len(LoopUnits) THEN FormatFixed1(v) \o <<" ">> \o LastUnit
    ELSE IF Below1024(v) THEN FormatFixed1(v) \o <<" ">> \o LoopUnits[u]
    ELSE FormatLoop(Div1024(v), u + 1)

format_bytes(kb) ==
    IF kb = NA \/ ~IsDigitStr(kb) THEN NA
    ELSE LET kb_val == ParseInt(kb)
         IN  IF ~kb_val.ok THEN NA
             ELSE FormatLoop([ip |-> kb_val.val, fp |-> <<>>], 1)

----------------------------------------------------------------------------
(* float(s) on text made of decimal digits, '.', '-', '+' and characters    *)
(* that belong to no number: ok is FALSE when float raises ValueError, and  *)
(* the value is (-1)^neg * num / 10^scale otherwise.                       *)

RECURSIVE DigitsToInt(_, _)
DigitsToInt(s, acc) ==
    IF s = <<>> THEN acc
    ELSE DigitsToInt(Tail(s), acc * 10 + DigitVal(Head(s)))

RECURSIVE Pow10(_)
Pow10(n) == IF n = 0 THEN 1 ELSE 10 * Pow10(n - 1)

ParseFloat(s) ==
    LET signed == Len(s) > 0 /\ s[1] \in {"-", "+"}
        body   == IF signed THEN Tail(s) ELSE s
        dots   == {i \in 1..Len(body) : body[i] = "."}
        ds     == SelectSeq(body, LAMBDA c : c \in DigitChars)
    IN  IF \/ \E i \in 1..Len(body) : body[i] \notin DigitChars \cup {"."}
           \/ Cardinality(dots) > 1
           \/ Len(ds) = 0
        THEN [ok |-> FALSE]
        ELSE [ok    |-> TRUE,
              neg   |-> signed /\ s[1] = "-",
              num   |-> DigitsToInt(ds, 0),
              scale |-> IF dots = {} THEN 0
                        ELSE Len(body) - (CHOOSE i \in dots : TRUE)]

\* f > k for a parsed float f and an int k >= 0
FloatGt(f, k) == ~f.neg /\ f.num > k * Pow10(f.scale)

\* >= in the place of > at line 232
CpuColor_Ge(proc) ==
    LET f == ParseFloat(proc.cpu)
    IN  IF ~f.ok THEN "GREEN"
        ELSE IF FloatGt(f, 20) \/ (~f.neg /\ f.num = 20 * Pow10(f.scale)) THEN "RED"
        ELSE IF FloatGt(f, 10) THEN "YELLOW"
        ELSE "GREEN"

\* lines 230-237
CpuColor(proc) ==
    LET f == ParseFloat(proc.cpu)
    IN  IF ~f.ok THEN "GREEN"
        ELSE IF FloatGt(f, 20) THEN "RED"
        ELSE IF FloatGt(f, 10) THEN "YELLOW"
        ELSE "GREEN"

\* proc['cpu'] in the place of proc['mem'] at lines 241 and 243
MemColor_OfCpu(proc) ==
    LET f == ParseFloat(proc.cpu)
    IN  IF ~f.ok THEN "GREEN"
        ELSE IF FloatGt(f, 5) THEN "RED"
        ELSE IF FloatGt(f, 2) THEN "YELLOW"
        ELSE "GREEN"

\* lines 239-246
MemColor(proc) ==
    LET f == ParseFloat(proc.mem)
    IN  IF ~f.ok THEN "GREEN"
        ELSE IF FloatGt(f, 5) THEN "RED"
        ELSE IF FloatGt(f, 2) THEN "YELLOW"
        ELSE "GREEN"

----------------------------------------------------------------------------
(* The terminal surface.  stdscr.addstr(y, x, text, attr) moves the cursor  *)
(* to (y, x), which fails outside the window, and writes the text, wrapping *)
(* at the right margin; it fails when the text reaches the lower right      *)
(* corner.  A failure is raised as curses.error.                            *)

AddstrOK(h, w, y, x, text) ==
    /\ 0 <= y /\ y < h
    /\ 0 <= x /\ x < w
    /\ y * w + x + Len(text) < h * w

Addstr(y, x, text, attr) ==
    [op |-> "addstr", y |-> y, x |-> x, text |-> text, attr |-> attr]

\* "=" * (width-1)
Rule(w) == [i \in 1..(w - 1) |-> "="]

\* an evaluation that raises instead of writing
Raise(exc) == [op |-> "raise", exc |-> exc]

OpFails(h, w, o) ==
    o.op = "raise" \/ ~AddstrOK(h, w, o.y, o.x, o.text)

\* the operations of `ops` that run: those before the first that raises
Issued(h, w, ops) ==
    LET bad == {i \in 1..Len(ops) : OpFails(h, w, ops[i])}
    IN  IF bad = {} THEN ops
        ELSE SubSeq(ops, 1, (CHOOSE i \in bad : \A j \in bad : i <= j) - 1)

\* the exception that ends `ops`, "none" when all of them run
Raised(h, w, ops) ==
    LET bad == {i \in 1..Len(ops) : OpFails(h, w, ops[i])}
    IN  IF bad = {} THEN "none"
        ELSE LET o == ops[CHOOSE i \in bad : \A j \in bad : i <= j]
             IN  IF o.op = "raise" THEN o.exc ELSE "curses.error"

----------------------------------------------------------------------------
(* display_processes(processes, start_row), lines 209-279 *)

BasicHeader ==
    PadLeft(<<"P", "I", "D">>, 6) \o <<" ">> \o
    PadLeft(<<"U", "S", "E", "R">>, 10) \o <<" ">> \o
    PadLeft(<<"C", "P", "U", "%">>, 5) \o <<" ">> \o
    PadLeft(<<"M", "E", "M", "%">>, 5) \o <<" ">> \o
    <<"C", "O", "M", "M", "A", "N", "D">>

DetailedHeader ==
    PadLeft(<<"P", "I", "D">>, 6) \o <<" ">> \o
    PadLeft(<<"U", "S", "E", "R">>, 10) \o <<" ">> \o
    PadLeft(<<"C", "P", "U", "%">>, 5) \o <<" ">> \o
    PadLeft(<<"M", "E", "M", "%">>, 5) \o <<" ">> \o
    PadLeft(<<"V", "S", "Z">>, 8) \o <<" ">> \o
    PadLeft(<<"R", "S", "S">>, 8) \o <<" ">> \o
    PadLeft(<<"T", "I", "M", "E">>, 10) \o <<" ">> \o
    <<"C", "O", "M", "M", "A", "N", "D">>

\* the header of the basic columns in both modes
TableHeader_Basic(sd) == BasicHeader

\* lines 214-217
TableHeader(sd) == IF sd THEN DetailedHeader ELSE BasicHeader

\* >= in the place of > at lines 258 and 270
CommLimit_Ge(w, sd) ==
    IF sd THEN (IF w >= 55 THEN w - 55 ELSE 20)
    ELSE (IF w >= 30 THEN w - 30 ELSE 20)

\* the slice bound of comm_str, lines 258 and 270
CommLimit(w, sd) ==
    IF sd THEN (IF w > 55 THEN w - 55 ELSE 20)
    ELSE (IF w > 30 THEN w - 30 ELSE 20)

\* line 223
MaxProcesses(h, start_row) == h - start_row - 4

\* the keys a detailed row reads, lines 255-257
DetailKeys == {"vsz", "rss", "etime"}

\* the body of the for loop for one process on screen row y, lines 229-277
RowOps(proc, y, w, sd) ==
    LET pid_str  == PadLeft(proc.pid, 6)
        user_str == SliceTo(PadLeft(proc.user, 10), 10)
        cpu_str  == PadLeft(proc.cpu, 5)
        mem_str  == PadLeft(proc.mem, 5)
        comm_str == SliceTo(proc.comm, CommLimit(w, sd))
        common   == << Addstr(y, 0, pid_str, "WHITE"),
                       Addstr(y, 6, user_str, "CYAN"),
                       Addstr(y, 16, cpu_str, CpuColor(proc)),
                       Addstr(y, 21, mem_str, MemColor(proc)) >>
    IN  IF ~sd THEN common \o << Addstr(y, 26, comm_str, "GREEN") >>
        ELSE IF ~(DetailKeys \subseteq DOMAIN proc) THEN << Raise("KeyError") >>
        ELSE common \o
             << Addstr(y, 26, SliceTo(PadLeft(format_bytes(proc.vsz), 8), 8), "BLUE"),
                Addstr(y, 34, SliceTo(PadLeft(format_bytes(proc.rss), 8), 8), "MAGENTA"),
                Addstr(y, 42, SliceTo(PadLeft(proc.etime, 10), 10), "YELLOW"),
                Addstr(y, 52, comm_str, "GREEN") >>

\* the loop without the break of lines 226-227
VisitedRows_NoBreak(procs, h, start_row) ==
    SliceTo(procs, MaxProcesses(h, start_row))

\* the rows the for loop visits: those of processes[:max_processes] before the
\* first whose screen row reaches height - 2 (lines 224-227)
VisitedRows(procs, h, start_row) ==
    LET sel  == SliceTo(procs, MaxProcesses(h, start_row))
        stop == {i \in 1..Len(sel) : start_row + 2 + (i - 1) >= h - 2}
    IN  IF stop = {} THEN sel
        ELSE SubSeq(sel, 1, (CHOOSE i \in stop : \A j \in stop : i <= j) - 1)

RECURSIVE RowsOps(_, _, _, _)
\* the operations of the loop over the visited rows, the first on screen row y
RowsOps(rows, y, w, sd) ==
    IF rows = <<>> THEN <<>>
    ELSE RowOps(Head(rows), y, w, sd) \o RowsOps(Tail(rows), y + 1, w, sd)

\* every operation of display_processes, in program order
ProcessesOps(procs, start_row, h, w, sd) ==
    << Addstr(start_row, 0, TableHeader(sd), "WHITE|BOLD"),
       Addstr(start_row + 1, 0, Rule(w), "WHITE") >>
    \o RowsOps(VisitedRows(procs, h, start_row), start_row + 2, w, sd)

\* line 279
ProcessesReturn(procs, start_row, h) ==
    start_row + 2 + Min(Len(procs), MaxProcesses(h, start_row)) + 1

\* the column of the last write of a row, lines 268 and 277
LastColumn(sd) == IF sd THEN 52 ELSE 26

\* the visited rows whose body ran to its end: those whose last write is
\* among the issued ones
RowsDrawn(rows, done, start_row, sd) ==
    LET last == {i \in 1..Len(done) :
                    done[i].y >= start_row + 2 /\ done[i].x = LastColumn(sd)}
    IN  SubSeq(rows, 1, Cardinality(last))

\* one call of display_processes: the writes it issues, the exception it
\* ends with ("none" when it returns), the rows it draws, the slice bound
\* of comm_str when a row computes it ("none" otherwise: the first write of
\* a row, in column 0 of a row above the last two, never fails), and what it
\* returns
RunProcesses(procs, start_row, h, w, sd) ==
    LET ops  == ProcessesOps(procs, start_row, h, w, sd)
        done == Issued(h, w, ops)
    IN  [done  |-> done,
         exc   |-> Raised(h, w, ops),
         rows  |-> RowsDrawn(VisitedRows(procs, h, start_row), done, start_row, sd),
         limit |-> IF \E i \in 1..Len(done) : done[i].y >= start_row + 2
                   THEN <<CommLimit(w, sd)>> ELSE <<>>,
         ret   |-> ProcessesReturn(procs, start_row, h)]

----------------------------------------------------------------------------
(* str.replace(old, "") and the text the screen shows *)

StartsWith(s, old) == Len(s) >= Len(old) /\ SubSeq(s, 1, Len(old)) = old

RECURSIVE Remove(_, _)
\* s.replace(old, ""), old not empty
Remove(s, old) ==
    IF s = <<>> THEN <<>>
    ELSE IF StartsWith(s, old) THEN Remove(SubSeq(s, Len(old) + 1, Len(s)), old)
    ELSE <<Head(s)>> \o Remove(Tail(s), old)

Title == 
    <<"E", "n", "h", "a", "n", "c", "e", "d", " ", "S", "y", "s", "t", "e",
      "m", " ", "M", "o", "n", "i", "t", "o", "r">>

HostLabel == <<"H", "o", "s", "t", ":", " ">>

UptimeLabel == <<"U", "p", "t", "i", "m", "e", ":", " ">>

LoadLabel == <<"L", "o", "a", "d", ":", " ">>

ProcessesLabel == <<"P", "r", "o", "c", "e", "s", "s", "e", "s", ":", " ">>

CpuLabel == <<"C", "P", "U", ":", " ">>

MemoryLabel == <<"M", "e", "m", "o", "r", "y", ":", " ">>

DiskLabel == <<"D", "i", "s", "k", ":", " ">>

BatteryLabel == <<"B", "a", "t", "t", "e", "r", "y", ":", " ">>

TempLabel == <<"T", "e", "m", "p", ":", " ">>

DegreesC == <<"deg", "C">>

Percent == <<"%">>

UpPrefix == <<"u", "p", " ">>

ModeLabel == <<"M", "o", "d", "e", ":", " ">>

DetailedText == <<"D", "e", "t", "a", "i", "l", "e", "d">>

BasicText == <<"B", "a", "s", "i", "c">>

HelpTail == 
    <<" ", "|", " ", "[", "D", "]", "e", "t", "a", "i", "l", "s", " ", "[",
      "Q", "]", "u", "i", "t">>

----------------------------------------------------------------------------
(* get_system_info(), lines 52-96.  `out` gives, for each command, what     *)
(* run_command returns: the stripped output, or "N/A" when the command      *)
(* fails (lines 44-50).                                                     *)

\* x or y
Or(x, y) == IF x # <<>> THEN x ELSE y

SystemInfo(out) ==
    LET uptime   == Or(out.uptime_p, out.proc_uptime)
        cpu      == IF out.top = NA THEN out.mpstat ELSE out.top
        load0    == Or(out.loadavg, NA)
        load_avg == IF load0 = NA THEN out.uptime_load ELSE load0
        battery  == IF out.upower = NA THEN out.bat_capacity \o Percent
                    ELSE out.upower
        temp     == IF out.thermal # NA THEN out.thermal \o DegreesC
                    ELSE out.thermal
    IN  [hostname      |-> out.hostname,
         uptime        |-> IF uptime # NA THEN Remove(uptime, UpPrefix) ELSE NA,
         cpu_usage     |-> cpu,
         mem_info      |-> out.free,
         disk_usage    |-> out.df,
         process_count |-> out.ps_count,
         load_avg      |-> load_avg,
         battery       |-> battery,
         temperature   |-> temp]

----------------------------------------------------------------------------
(* display_header(info), lines 168-207 *)

HeaderOps(i, w) ==
    LET host_info      == HostLabel \o i.hostname
        uptime_info    == UptimeLabel \o i.uptime
        load_info      == LoadLabel \o i.load_avg
        processes_info == ProcessesLabel \o i.process_count
        cpu_info       == CpuLabel \o i.cpu_usage
        mem_info       == MemoryLabel \o i.mem_info
        disk_info      == DiskLabel \o i.disk_usage
        battery_info   == IF i.battery # NA THEN BatteryLabel \o i.battery ELSE <<>>
        temp_info      == IF i.temperature # NA THEN TempLabel \o i.temperature
                          ELSE <<>>
        pos0           == Len(disk_info) + 2
        pos1           == IF battery_info # <<>> THEN pos0 + Len(battery_info) + 2
                          ELSE pos0
    IN  << Addstr(0, 0, Rule(w), "WHITE"),
           Addstr(1, 0, Title, "CYAN|BOLD"),
           Addstr(1, Len(Title) + 2, host_info, "GREEN"),
           Addstr(2, 0, Rule(w), "WHITE"),
           Addstr(3, 0, uptime_info, "YELLOW"),
           Addstr(3, Len(uptime_info) + 2, load_info, "MAGENTA"),
           Addstr(4, 0, processes_info, "GREEN"),
           Addstr(4, Len(processes_info) + 2, cpu_info, "RED"),
           Addstr(4, Len(processes_info) + Len(cpu_info) + 4, mem_info, "BLUE"),
           Addstr(5, 0, disk_info, "CYAN") >>
        \o (IF battery_info # <<>>
            THEN << Addstr(5, pos0, battery_info, "GREEN") >> ELSE <<>>)
        \o (IF temp_info # <<>>
            THEN << Addstr(5, pos1, temp_info, "YELLOW") >> ELSE <<>>)
        \o << Addstr(6, 0, Rule(w), "WHITE") >>

----------------------------------------------------------------------------
(* display_footer(row), lines 281-291 *)

HelpText(sd) ==
    ModeLabel \o (IF sd THEN DetailedText ELSE BasicText) \o HelpTail

FooterOps(r, h, w, sd) ==
    IF r < h - 1
    THEN << Addstr(r, 0, Rule(w), "WHITE"),
            Addstr(r + 1, 0, HelpText(sd), "GREEN") >>
    ELSE <<>>

----------------------------------------------------------------------------
(* get_processes(), lines 98-151.  The output of ps is a sequence of lines, *)
(* a line the sequence of its whitespace-separated fields (an output       *)
(* without text is one blank line).  What run_command does with ps is a    *)
(* record: kind "output" with the lines, kind "N/A" when ps fails (lines   *)
(* 49-50), kind "raise" when it raises what line 49 does not catch.        *)

RECURSIVE Join(_)
\* the fields of the rest of a line, with the blanks between them
Join(fields) ==
    IF Len(fields) = 1 THEN fields[1]
    ELSE fields[1] \o <<" ">> \o Join(Tail(fields))

\* line.split(maxsplit=k)
Split(line, k) ==
    IF Len(line) <= k + 1 THEN line
    ELSE SubSeq(line, 1, k) \o << Join(SubSeq(line, k + 1, Len(line))) >>

\* output.split('\n')[1:]
BodyLines(out) == IF out.kind = "N/A" THEN <<>> ELSE Tail(out.lines)

\* lines 111-122
DetailedRow(line) ==
    LET parts == Split(line, 7)
    IN  IF Len(parts) >= 8
        THEN << [pid |-> parts[1], user |-> parts[2], cpu |-> parts[3],
                 mem |-> parts[4], vsz |-> parts[5], rss |-> parts[6],
                 etime |-> parts[7], comm |-> parts[8]] >>
        ELSE <<>>

\* lines 124-132 and 139-147
BasicRow(line) ==
    LET parts == Split(line, 4)
    IN  IF Len(parts) >= 5
        THEN << [pid |-> parts[1], user |-> parts[2], cpu |-> parts[3],
                 mem |-> parts[4], comm |-> parts[5]] >>
        ELSE <<>>

RECURSIVE ParseRows(_, _)
\* the for loop over the lines: a blank line has no field
ParseRows(lines, sd) ==
    IF lines = <<>> THEN <<>>
    ELSE (IF Head(lines) = <<>> THEN <<>>
          ELSE IF sd THEN DetailedRow(Head(lines)) ELSE BasicRow(Head(lines)))
         \o ParseRows(Tail(lines), sd)

\* out1: what the first run_command gives; out2: what the one of the except
\* branch gives
GetProcesses(sd, out1, out2) ==
    IF out1.kind # "raise" THEN ParseRows(BodyLines(out1), sd)
    ELSE IF out2.kind # "raise" THEN ParseRows(BodyLines(out2), FALSE)
    ELSE <<>>

----------------------------------------------------------------------------
(* The environment of run(): the keyboard, the clock, the terminal and the  *)
(* commands that run_command executes.                                      *)

\* ord(c) of the keys the loop tells apart; x stands for any other key
Ord(c) ==
    CASE c = "q" -> 113 [] c = "Q" -> 81 [] c = "d" -> 100 [] c = "D" -> 68
      [] c = "x" -> 120

\* getch() gives -1 when no key arrives within the timeout
NoKey == -1

Keys == {Ord("q"), Ord("Q"), Ord("d"), Ord("D"), Ord("x"), NoKey}

\* line 301 comparing with ord('q') alone
QuitKeys_LowerOnly == {Ord("q")}

\* line 301
QuitKeys == {Ord("q"), Ord("Q")}

\* line 303 comparing with ord('d') alone
ToggleKeys_LowerOnly == {Ord("d")}

\* line 303 taken by every key that is a letter
ToggleKeys_AnyLetter == {Ord("d"), Ord("D"), Ord("x")}

\* line 303
ToggleKeys == {Ord("d"), Ord("D")}

\* update_interval = 2 seconds, in ticks
update_interval == 20

\* stdscr.timeout(100): getch() waits at most one tick
PollTimeout == 1

\* time.sleep(0.1): at least one tick
SleepTicks == 1

\* the ticks a stalled sleep may last instead: more than two intervals
StallTicks == 2 * update_interval + 3

\* the ticks a slow metrics fetch lasts: more than one interval
SlowFetchTicks == update_interval + 1

\* the clock is not followed beyond this tick
MaxClock == 64

\* time.time() when run() starts: below the interval (the first check can
\* come at it), and above it
StartClocks == {update_interval - 1, update_interval + 1}

\* the terminal sizes the loop is followed on
Terminals == { [h |-> 24, w |-> 80], [h |-> 12, w |-> 40], [h |-> 6, w |-> 80] }

\* the most process lines ps gives in the loop
MaxRows == 2

SomeText == <<"1", "2">>

UptimeText == UpPrefix \o <<"1", "h">>

\* what the commands of get_system_info give: all their output, all of them
\* failing, or all of them without output
CommandScenarios ==
    { [hostname |-> t, uptime_p |-> u, proc_uptime |-> t, top |-> t,
       mpstat |-> t, free |-> t, df |-> t, ps_count |-> t, loadavg |-> t,
       uptime_load |-> t, upower |-> t, bat_capacity |-> t, thermal |-> t]
      : <<t, u>> \in { <<SomeText, UptimeText>>, <<NA, NA>>, <<<<>>, <<>>>> } }

\* the i-th line ps prints for the given column set
PsLine(i, detailed) ==
    << DecInt(i), <<"r", "o", "o", "t">>, <<"2", "5", ".", "0">>,
       <<"3", ".", "1">> >>
    \o (IF detailed
        THEN << <<"2", "0", "4", "8">>, <<"5", "1", "2">>, <<"0", "1", ":", "0", "0">> >>
        ELSE <<>>)
    \o << <<"s", "h">>, <<"-", "c">> >>

PsHeaderLine == << <<"P", "I", "D">> >>

PsText(n, detailed) ==
    [kind  |-> "output",
     lines |-> IF n = 0 THEN << <<>> >>
               ELSE <<PsHeaderLine>> \o [i \in 1..n |-> PsLine(i, detailed)]]

\* what run_command does with a ps command that has `counts` processes to
\* print
PsOutcomes(detailed, counts) ==
    { [kind |-> "N/A"], [kind |-> "raise"] }
    \cup { PsText(n, detailed) : n \in counts }

\* the lists get_processes gives in the mode sd
ProcessLists(sd, counts) ==
    { GetProcesses(sd, out1, out2) :
        out1 \in PsOutcomes(sd, counts), out2 \in PsOutcomes(FALSE, counts) }

----------------------------------------------------------------------------
(* run(), lines 293-329 *)

\* last_update starting at a time of the wall clock in the place of 0
last_update_late == update_interval + 1

\* line 295
last_update_init == 0

\* line 319: the start_row given to display_processes
StartRow == 7

\* > in the place of >= at line 307
ShouldRefresh_Gt(now, last) == now - last > update_interval

\* line 307
ShouldRefresh(now, last) == now - last >= update_interval

\* what run() never assigns
fixed == <<process_sort, height, width, arg, ret>>

\* what the drawing assigns
drawn == <<writes, rows_drawn, comm_limit, row, error>>

\* the toggle of line 304 also making the next check due, by last_update = 0
Getch_ToggleRedraws ==
    /\ pc = "getch"
    /\ \E k \in Keys, d \in 0..PollTimeout :
          /\ k = NoKey => d = PollTimeout
          /\ clock + d <= MaxClock
          /\ clock' = clock + d
          /\ key' = k
          /\ pc' = IF k \in QuitKeys THEN "done" ELSE "check"
          /\ show_details' = IF k \notin QuitKeys /\ k \in ToggleKeys
                             THEN ~show_details ELSE show_details
          /\ last_update' = IF k \notin QuitKeys /\ k \in ToggleKeys
                            THEN 0 ELSE last_update
          /\ toggles' = IF k \in {Ord("d"), Ord("D")} THEN (toggles + 1) % 2
                        ELSE toggles
    /\ iteration' = Min(iteration + 1, 2)
    /\ UNCHANGED <<fixed, drawn, current_time, info, processes>>

\* lines 300-304: one poll of the keyboard and what the key does
Getch ==
    /\ pc = "getch"
    /\ \E k \in Keys, d \in 0..PollTimeout :
          /\ k = NoKey => d = PollTimeout
          /\ clock + d <= MaxClock
          /\ clock' = clock + d
          /\ key' = k
          /\ pc' = IF k \in QuitKeys THEN "done" ELSE "check"
          /\ show_details' = IF k \notin QuitKeys /\ k \in ToggleKeys
                             THEN ~show_details ELSE show_details
          /\ toggles' = IF k \in {Ord("d"), Ord("D")} THEN (toggles + 1) % 2
                        ELSE toggles
    /\ iteration' = Min(iteration + 1, 2)
    /\ UNCHANGED <<fixed, drawn, last_update, current_time, info, processes>>

\* lines 306-307
Check ==
    /\ pc = "check"
    /\ current_time' = clock
    /\ pc' = IF ShouldRefresh(clock, last_update) THEN "clear" ELSE "sleep"
    /\ UNCHANGED <<fixed, drawn, key, show_details, last_update, clock, info,
                   processes, iteration, toggles>>

\* line 309
Clear ==
    /\ pc = "clear"
    /\ writes' = <<>>
    /\ pc' = "get_system_info"
    /\ UNCHANGED <<fixed, rows_drawn, comm_limit, row, error, key, show_details,
                   last_update, current_time, clock, info, processes, iteration,
                   toggles>>

\* line 312
GetSystemInfo ==
    /\ pc = "get_system_info"
    /\ \E out \in CommandScenarios, d \in {0, SlowFetchTicks} :
          /\ clock + d <= MaxClock
          /\ clock' = clock + d
          /\ info' = SystemInfo(out)
    /\ pc' = "get_processes"
    /\ UNCHANGED <<fixed, drawn, key, show_details, last_update, current_time,
                   processes, iteration, toggles>>

\* the fallback of lines 133-147 taken as a change of mode as well
GetProcessesStep_ModeChange ==
    /\ pc = "get_processes"
    /\ \E out1 \in PsOutcomes(show_details, {0, MaxRows}),
          out2 \in PsOutcomes(FALSE, {0, MaxRows}) :
          /\ out1.kind # "raise" => out2 = [kind |-> "N/A"]
          /\ processes' = GetProcesses(show_details, out1, out2)
          /\ show_details' = (show_details /\ out1.kind # "raise")
    /\ pc' = "display_header"
    /\ UNCHANGED <<fixed, drawn, key, last_update, current_time, clock, info,
                   iteration, toggles>>

\* line 313
GetProcessesStep ==
    /\ pc = "get_processes"
    /\ \E out1 \in PsOutcomes(show_details, {0, MaxRows}),
          out2 \in PsOutcomes(FALSE, {0, MaxRows}) :
          /\ out1.kind # "raise" => out2 = [kind |-> "N/A"]
          /\ processes' = GetProcesses(show_details, out1, out2)
    /\ pc' = "display_header"
    /\ UNCHANGED <<fixed, drawn, key, show_details, last_update, current_time,
                   clock, info, iteration, toggles>>

\* line 316
DisplayHeader ==
    /\ pc = "display_header"
    /\ \E ops \in {HeaderOps(info, width)} :
          \E exc \in {Raised(height, width, ops)} :
             /\ writes' = writes \o Issued(height, width, ops)
             /\ error' = exc
             /\ pc' = IF exc = "none" THEN "display_processes" ELSE "raised"
    /\ UNCHANGED <<fixed, rows_drawn, comm_limit, row, key, show_details,
                   last_update, current_time, clock, info, processes, iteration,
                   toggles>>

\* line 319
DisplayProcesses ==
    /\ pc = "display_processes"
    /\ \E r \in {RunProcesses(processes, StartRow, height, width, show_details)} :
          /\ writes' = writes \o r.done
          /\ error' = r.exc
          /\ rows_drawn' = r.rows
          /\ comm_limit' = IF r.limit # <<>> THEN r.limit[1] ELSE comm_limit
          /\ row' = IF r.exc = "none" THEN r.ret ELSE row
          /\ pc' = IF r.exc = "none" THEN "display_footer" ELSE "raised"
    /\ UNCHANGED <<fixed, key, show_details, last_update, current_time, clock,
                   info, processes, iteration, toggles>>

\* line 322
DisplayFooter ==
    /\ pc = "display_footer"
    /\ \E ops \in {FooterOps(row, height, width, show_details)} :
          \E exc \in {Raised(height, width, ops)} :
             /\ writes' = writes \o Issued(height, width, ops)
             /\ error' = exc
             /\ pc' = IF exc = "none" THEN "refresh" ELSE "raised"
    /\ UNCHANGED <<fixed, rows_drawn, comm_limit, row, key, show_details,
                   last_update, current_time, clock, info, processes, iteration,
                   toggles>>

\* line 326 advancing last_update by the interval, a fixed-rate schedule
Refresh_CatchUp ==
    /\ pc = "refresh"
    /\ last_update' = last_update + update_interval
    /\ pc' = "sleep"
    /\ UNCHANGED <<fixed, drawn, key, show_details, current_time, clock, info,
                   processes, iteration, toggles>>

\* line 326 recording the time the refresh finished, time.time() read anew
Refresh_AtFinish ==
    /\ pc = "refresh"
    /\ last_update' = clock
    /\ pc' = "sleep"
    /\ UNCHANGED <<fixed, drawn, key, show_details, current_time, clock, info,
                   processes, iteration, toggles>>

\* lines 325-326
Refresh ==
    /\ pc = "refresh"
    /\ last_update' = current_time
    /\ pc' = "sleep"
    /\ UNCHANGED <<fixed, drawn, key, show_details, current_time, clock, info,
                   processes, iteration, toggles>>

\* the sleep going back to the check of the clock, past the poll of line 300
Sleep_SkipPoll ==
    /\ pc = "sleep"
    /\ \E d \in {SleepTicks, StallTicks} :
          /\ clock + d <= MaxClock
          /\ clock' = clock + d
    /\ pc' = "check"
    /\ UNCHANGED <<fixed, drawn, key, show_details, last_update, current_time,
                   info, processes, iteration, toggles>>

\* line 329
Sleep ==
    /\ pc = "sleep"
    /\ \E d \in {SleepTicks, StallTicks} :
          /\ clock + d <= MaxClock
          /\ clock' = clock + d
    /\ pc' = "getch"
    /\ UNCHANGED <<fixed, drawn, key, show_details, last_update, current_time,
                   info, processes, iteration, toggles>>

NoInfo == [hostname |-> <<>>, uptime |-> <<>>, cpu_usage |-> <<>>,
           mem_info |-> <<>>, disk_usage |-> <<>>, process_count |-> <<>>,
           load_avg |-> <<>>, battery |-> <<>>, temperature |-> <<>>]

\* a monitor as __init__ leaves it (lines 15-16), its run() not begun: the
\* locals not yet assigned hold placeholders
Fresh ==
    /\ key = NoKey
    /\ show_details = FALSE
    /\ process_sort = "cpu"
    /\ last_update = last_update_init
    /\ current_time = 0
    /\ info = NoInfo
    /\ processes = <<>>
    /\ row = 0
    /\ writes = <<>>
    /\ rows_drawn = <<>>
    /\ comm_limit = 0
    /\ error = "none"
    /\ iteration = 0
    /\ toggles = 0

\* the state when run() reaches the while loop
Init ==
    /\ Fresh
    /\ pc = "getch"
    /\ arg = <<>>
    /\ ret = <<>>
    /\ clock \in StartClocks
    /\ \E t \in Terminals : height = t.h /\ width = t.w

Next ==
    \/ Getch
    \/ Check
    \/ Clear
    \/ GetSystemInfo
    \/ GetProcessesStep
    \/ DisplayHeader
    \/ DisplayProcesses
    \/ DisplayFooter
    \/ Refresh
    \/ Sleep

Spec == Init /\ [][Next]_vars

----------------------------------------------------------------------------
(* format_bytes called on its own: the argument is the text of a number     *)
(* given by its limbs, or text of a few characters.                         *)

\* the texts of at most n characters of alphabet
Strings(alphabet, n) == UNION {[1..k -> alphabet] : k \in 0..n}

RECURSIVE StripZeros(_)
\* a number without its high zero limbs
StripZeros(n) ==
    IF n # <<>> /\ n[Len(n)] = 0 THEN StripZeros(SubSeq(n, 1, Len(n) - 1))
    ELSE n

RECURSIVE DivMod(_, _)
\* quotient and remainder of the number n by d
DivMod(n, d) ==
    IF n = <<>> THEN [q |-> <<>>, r |-> 0]
    ELSE LET hi == DivMod(Tail(n), d)
             v  == hi.r * Limb + Head(n)
         IN  [q |-> <<v \div d>> \o hi.q, r |-> v % d]

RECURSIVE BigDec(_)
\* str(n) for a number n > 0, the empty text for 0
BigDec(n) ==
    IF n = <<>> THEN <<>>
    ELSE LET dm == DivMod(n, 10)
         IN  BigDec(StripZeros(dm.q)) \o <<Digits[dm.r + 1]>>

\* str(n)
BigStr(n) == IF n = <<>> THEN <<"0">> ELSE BigDec(n)

\* the limbs the numbers are made of: around the tenths and the ties of the
\* fraction, and the ends of the range
LimbValues == {0, 1, 51, 52, 256, 1023}

\* the highest limb of a number of six limbs: the number stays below 2^53
TopLimbValues == {1, 7}

\* the numbers of at most k limbs of the given values, and those with one
\* more limb, a top one
Numbers(k, limbs, tops) ==
    {StripZeros(n) : n \in Strings(limbs, k)}
    \cup {n \o <<t>> : n \in [1..k -> limbs], t \in tops}

\* the longest text that is no number
MaxTextLen == 3

TextChars == {"a", "b", "c", "N", "/", "A", "1", "0", "-", SuperscriptTwo}

\* the arguments: the numbers that reach every unit and go beyond the last,
\* and the texts of at most n characters
FormatInputs(n) ==
    {BigStr(m) : m \in Numbers(Len(LoopUnits) + 1, LimbValues, TopLimbValues)}
    \cup Strings(TextChars, n)

\* format_bytes about to be called on one of the inputs
InitFormat ==
    /\ Fresh
    /\ pc = "format_bytes"
    /\ arg \in FormatInputs(MaxTextLen)
    /\ ret = <<>>
    /\ clock = 0
    /\ height = 24
    /\ width = 80

\* lines 153-166
FormatBytes ==
    /\ pc = "format_bytes"
    /\ ret' = format_bytes(arg)
    /\ pc' = "returned"
    /\ UNCHANGED <<key, show_details, process_sort, last_update, current_time,
                   clock, height, width, info, processes, row, writes,
                   rows_drawn, comm_limit, error, arg, iteration, toggles>>

NextFormat == FormatBytes

SpecFormat == InitFormat /\ [][NextFormat]_vars

----------------------------------------------------------------------------
(* C8: format_bytes *)

Unavailable == <<"u", "n", "a", "v", "a", "i", "l", "a", "b", "l", "e">>

RECURSIVE StripLeadingZeros(_)
StripLeadingZeros(s) ==
    IF Len(s) > 1 /\ s[1] = "0" THEN StripLeadingZeros(Tail(s)) ELSE s

\* the text of a kilobyte count: decimal digits only, at least one
IsCount(s) == Len(s) > 0 /\ \A i \in 1..Len(s) : s[i] \in DigitChars

\* a < b for the decimal texts of two counts without leading zeros
DecLess(a, b) ==
    \/ Len(a) < Len(b)
    \/ /\ Len(a) = Len(b)
       /\ \E i \in 1..Len(a) :
             /\ DigitVal(a[i]) < DigitVal(b[i])
             /\ \A j \in 1..(i - 1) : a[j] = b[j]

\* 1024, 1024^2, 1024^3, 1024^4 in decimal
UnitSteps ==
    << <<"1", "0", "2", "4">>,
       <<"1", "0", "4", "8", "5", "7", "6">>,
       <<"1", "0", "7", "3", "7", "4", "1", "8", "2", "4">>,
       <<"1", "0", "9", "9", "5", "1", "1", "6", "2", "7", "7", "7", "6">> >>

UnitNames == LoopUnits \o <<LastUnit>>

\* the first unit at which the count, divided by 1024 once per unit passed,
\* is below 1024; the last unit when there is none
ExpectedUnit(s) ==
    LET n == StripLeadingZeros(s)
        passed == {u \in 1..Len(UnitSteps) : ~DecLess(n, UnitSteps[u])}
    IN  UnitNames[Cardinality(passed) + 1]

\* digits, a point, one digit, a blank and the unit
OneDecimalIn(r, unit) ==
    LET n == Len(r)
    IN  /\ n >= 6
        /\ SubSeq(r, n - 1, n) = unit
        /\ r[n - 2] = " "
        /\ r[n - 3] \in DigitChars
        /\ r[n - 4] = "."
        /\ \A i \in 1..(n - 5) : r[i] \in DigitChars

----------------------------------------------------------------------------
(* display_processes called on its own, on a terminal of 24 lines and 80    *)
(* columns, with one process whose cpu and mem fields are any text.         *)

\* the longest cpu or mem field
MaxNumLen == 4

NumChars == {"0", "1", "2", "5", ".", "x"}

\* a field of each colour class, and one that is no number
FewTexts == { <<"0", ".", "0">>, <<"1", "5">>, <<"2", "5">>, <<"x">> }

OneProcess(cpu, mem, detailed) ==
    LET basic == [pid |-> <<"1">>, user |-> <<"r", "o", "o", "t">>,
                  cpu |-> cpu, mem |-> mem, comm |-> <<"s", "h">>]
    IN  IF detailed
        THEN << [pid |-> basic.pid, user |-> basic.user, cpu |-> cpu,
                 mem |-> mem, comm |-> basic.comm, vsz |-> <<"2", "0", "4", "8">>,
                 rss |-> <<"5", "1", "2">>, etime |-> <<"0", "1", ":", "0", "0">>] >>
        ELSE << basic >>

\* what the function-call specifications leave as run() starts with
AtCall ==
    /\ key = NoKey
    /\ process_sort = "cpu"
    /\ last_update = last_update_init
    /\ current_time = 0
    /\ clock = 0
    /\ info = NoInfo
    /\ row = 0
    /\ writes = <<>>
    /\ rows_drawn = <<>>
    /\ comm_limit = 0
    /\ error = "none"
    /\ arg = <<>>
    /\ ret = <<>>
    /\ iteration = 0
    /\ toggles = 0

InitClassify ==
    /\ AtCall
    /\ pc = "display_processes"
    /\ height = 24
    /\ width = 80
    /\ show_details \in BOOLEAN
    /\ \E t \in Strings(NumChars, MaxNumLen), f \in FewTexts :
          \/ processes = OneProcess(t, f, show_details)
          \/ processes = OneProcess(f, t, show_details)

SpecClassify == InitClassify /\ [][DisplayProcesses]_vars

----------------------------------------------------------------------------
(* C6, C7: the colour classes of a process row *)

\* the text without its sign
Unsigned(s) == IF Len(s) > 0 /\ s[1] \in {"-", "+"} THEN Tail(s) ELSE s

\* the places of the text after which the fraction starts: the text is
\* digits up to there, and nothing more or a point and digits, with a digit
\* somewhere
PointPlaces(u) ==
    {k \in 0..Len(u) :
        /\ \A i \in 1..k : u[i] \in DigitChars
        /\ k < Len(u) => u[k + 1] = "."
        /\ \A i \in (k + 2)..Len(u) : u[i] \in DigitChars
        /\ Len(u) - (IF k < Len(u) THEN 1 ELSE 0) > 0}

\* the text reads as a decimal number
IsNumber(s) == PointPlaces(Unsigned(s)) # {}

\* the decimal number the text reads as is above the whole number k
NumberAbove(s, k) ==
    LET u    == Unsigned(s)
        p    == CHOOSE i \in PointPlaces(u) : TRUE
        frac == IF p < Len(u) THEN Len(u) - p - 1 ELSE 0
        int  == [i \in 1..(p + frac) |-> IF i <= p THEN u[i] ELSE u[i + 1]]
    IN  /\ ~(Len(s) > 0 /\ s[1] = "-")
        /\ DigitsToInt(int, 0) > k * Pow10(frac)

\* the colour display_processes has written the field in column x of the
\* first process row with
ColourAt(x) ==
    LET w == CHOOSE i \in 1..Len(writes) :
                 writes[i].y = StartRow + 2 /\ writes[i].x = x
    IN  writes[w].attr

\* C6: the CPU field of a row is drawn HIGH (red) iff its value is above
\* 20, MEDIUM (yellow) iff above 10 and at most 20, NORMAL (green) iff at
\* most 10 or no number; no text makes the classification raise
C6_CpuClass ==
    pc # "display_processes" =>
        LET cpu == processes[1].cpu
            c   == ColourAt(16)
        IN  /\ error = "none"
            /\ rows_drawn = processes
            /\ c = "RED" <=> IsNumber(cpu) /\ NumberAbove(cpu, 20)
            /\ c = "YELLOW" <=> /\ IsNumber(cpu)
                                /\ NumberAbove(cpu, 10)
                                /\ ~NumberAbove(cpu, 20)
            /\ c = "GREEN" <=> ~IsNumber(cpu) \/ ~NumberAbove(cpu, 10)

\* a row with cpu "20.1" is drawn red
C6_Witness ==
    /\ pc = "display_footer"
    /\ processes[1].cpu = <<"2", "0", ".", "1">>
    /\ ColourAt(16) = "RED"

\* C7: the memory field of a row is drawn HIGH (red) iff its value is above
\* 5, MEDIUM (yellow) iff above 2 and at most 5, NORMAL (green) otherwise,
\* also when it is no number, whatever the CPU field of the row is
C7_MemClass ==
    pc # "display_processes" =>
        LET mem == processes[1].mem
            c   == ColourAt(21)
        IN  /\ error = "none"
            /\ c = "RED" <=> IsNumber(mem) /\ NumberAbove(mem, 5)
            /\ c = "YELLOW" <=> /\ IsNumber(mem)
                                /\ NumberAbove(mem, 2)
                                /\ ~NumberAbove(mem, 5)
            /\ c = "GREEN" <=> ~(IsNumber(mem) /\ NumberAbove(mem, 2))

\* a row with mem "2.1" is drawn yellow beside a red CPU field
C7_Witness ==
    /\ pc = "display_footer"
    /\ processes[1].mem = <<"2", ".", "1">>
    /\ ColourAt(21) = "YELLOW"
    /\ ColourAt(16) = "RED"

----------------------------------------------------------------------------
(* display_processes called on its own, on every terminal up to a size,     *)
(* in both modes, with every list get_processes can give.                   *)

MaxHeight == 16

MaxWidth == 80

\* the most processes in a list
MaxProcs == 4

InitDisplay ==
    /\ AtCall
    /\ pc = "display_processes"
    /\ height \in 1..MaxHeight
    /\ width \in 1..MaxWidth
    /\ show_details \in BOOLEAN
    /\ processes \in ProcessLists(show_details, 0..MaxProcs)

SpecDisplay == InitDisplay /\ [][DisplayProcesses]_vars

----------------------------------------------------------------------------
(* C9, C10: the command column and the rows of the process table *)

\* the body of the for loop has begun for a row: one of its writes is issued
RowBegun == \E i \in 1..Len(writes) : writes[i].y >= StartRow + 2

\* the width of the columns before the command, lines 258 and 270
FixedColumns == IF show_details THEN 55 ELSE 30

\* C9 as the spec states it: for every terminal width, in both modes, the
\* width the command is truncated to is at least 20, never zero or negative
C9_Original ==
    RowBegun => comm_limit >= 20

\* C9, amended: for every terminal width w, in both modes (fixed columns f =
\* 30 basic, 55 detailed), the width the command is truncated to is w - f
\* when w > f and 20 when w <= f: never zero or negative, and at least 20
\* exactly when w <= f or w >= f + 20; the command written is the command cut
\* to that width
C9_CommWidth ==
    RowBegun =>
        /\ comm_limit >= 1
        /\ width <= FixedColumns => comm_limit = 20
        /\ width > FixedColumns => comm_limit = width - FixedColumns
        /\ comm_limit >= 20 <=>
              (width <= FixedColumns \/ width >= FixedColumns + 20)
        /\ \A i \in 1..Len(rows_drawn) :
              \E j \in 1..Len(writes) :
                 /\ writes[j].y = StartRow + 1 + i
                 /\ writes[j].x = LastColumn(show_details)
                 /\ Len(writes[j].text) = Min(Len(rows_drawn[i].comm), comm_limit)
                 /\ writes[j].text = SubSeq(rows_drawn[i].comm, 1, Len(writes[j].text))

\* on a terminal of 31 columns a basic row is drawn with its command cut to
\* one character
C9_Witness ==
    /\ pc = "display_footer"
    /\ width = 31
    /\ ~show_details
    /\ rows_drawn # <<>>
    /\ comm_limit = 1
    /\ \E j \in 1..Len(writes) :
          /\ writes[j].y = StartRow + 2
          /\ writes[j].x = 26
          /\ writes[j].text = <<"s">>

\* height - start_row - 4, line 223
AvailableRows == height - StartRow - 4

\* C10: the process rows drawn are the first min(max(availableRows, 0),
\* len(processes)) rows of the list, in its order: exactly those when
\* display_processes returns, a prefix of them when a write raises; with
\* availableRows <= 0 the body of the loop runs for no row
C10_VisibleRows ==
    pc # "display_processes" =>
        LET n == Min(Max(AvailableRows, 0), Len(processes))
        IN  /\ Len(rows_drawn) <= n
            /\ rows_drawn = SubSeq(processes, 1, Len(rows_drawn))
            /\ error = "none" => Len(rows_drawn) = n
            /\ AvailableRows <= 0 => ~RowBegun
            /\ \A i \in 1..Len(rows_drawn) :
                  \E j \in 1..Len(writes) :
                     /\ writes[j].y = StartRow + 1 + i
                     /\ writes[j].x = 0
                     /\ writes[j].text = PadLeft(processes[i].pid, 6)
            /\ \A j \in 1..Len(writes) :
                  writes[j].y < StartRow + 2 + n

\* four processes and two available rows: exactly the first two are drawn
C10_Witness ==
    /\ pc = "display_footer"
    /\ Len(processes) = 4
    /\ AvailableRows = 2
    /\ rows_drawn = SubSeq(processes, 1, 2)
    /\ \A j \in 1..Len(writes) : writes[j].y < StartRow + 4

----------------------------------------------------------------------------
(* C1..C5: the keys and the refresh check of run() *)

\* what a refresh assigns
refreshed == <<writes, info, processes, last_update, rows_drawn, row, error>>

\* C1: a poll that gives q or Q ends the loop at once, whatever the time since
\* the last refresh: nothing is fetched or drawn, show_details and last_update
\* keep their values, and no step of run() follows; no other key ends the loop
C1_QuitKey ==
    [][ /\ pc # "done"
        /\ pc = "getch" =>
              /\ pc' = "done" <=> key' \in {Ord("q"), Ord("Q")}
              /\ key' \in {Ord("q"), Ord("Q")} =>
                    UNCHANGED <<refreshed, show_details, current_time>>
      ]_vars

\* Q ends the loop when a refresh was due, after an earlier refresh
C1_Witness ==
    /\ pc = "done"
    /\ key = Ord("Q")
    /\ last_update > 0
    /\ clock - last_update >= update_interval

\* C2: the check of an iteration takes the refresh branch if and only if
\* current_time - last_update >= update_interval, current_time being the
\* clock read at the check; otherwise the iteration goes to its sleep with
\* nothing fetched or drawn, and what a refresh assigns changes nowhere but in
\* the refresh branch, whose last step records the time of the check as the
\* time of the refresh
C2_RefreshDue ==
    [][ /\ pc = "check" =>
              /\ current_time' = clock
              /\ pc' = "clear" <=> current_time' - last_update >= update_interval
              /\ pc' # "clear" => pc' = "sleep"
        /\ pc = "refresh" => last_update' = current_time /\ pc' = "sleep"
        /\ ~(UNCHANGED refreshed) =>
              pc \in {"clear", "get_system_info", "get_processes",
                      "display_header", "display_processes", "display_footer",
                      "refresh"}
      ]_vars

\* exactly the interval after an earlier refresh the branch is taken
C2_Witness ==
    /\ pc = "clear"
    /\ last_update > 0
    /\ current_time - last_update = update_interval

\* C3: at the check of the first iteration last_update is 0, and the refresh
\* branch is taken whenever the clock read is at least update_interval
C3_FirstRefresh ==
    [][ (pc = "check" /\ iteration = 1) =>
            /\ last_update = 0
            /\ current_time' >= update_interval => pc' = "clear"
      ]_vars

\* the first iteration refreshes
C3_Witness ==
    /\ iteration = 1
    /\ pc = "clear"
    /\ last_update = 0
    /\ current_time >= update_interval

\* C4: a poll that gives d or D negates show_details and no other step
\* changes it, so show_details is its initial value, False, exactly when the
\* number of d and D presses is even
C4_Toggle ==
    /\ [](show_details = (toggles = 1))
    /\ [][ IF pc = "getch" /\ key' \in {Ord("d"), Ord("D")}
           THEN show_details' = ~show_details /\ pc' = "check"
           ELSE show_details' = show_details
         ]_vars

\* D pressed, an even number of presses made: the flag is False again
C4_Witness ==
    /\ pc = "check"
    /\ key = Ord("D")
    /\ toggles = 0
    /\ ~show_details

\* C5: a poll that gives no key, or a key other than q, Q, d, D, changes
\* nothing of the monitor and does not end the loop: the iteration goes on to
\* its refresh check
C5_OtherKey ==
    [][ (pc = "getch" /\ key' \notin {Ord("q"), Ord("Q"), Ord("d"), Ord("D")}) =>
            /\ pc' = "check"
            /\ UNCHANGED <<refreshed, show_details, process_sort, current_time>>
      ]_vars

\* x pressed in the detailed mode after a refresh: the mode is kept
C5_Witness ==
    /\ pc = "check"
    /\ key = Ord("x")
    /\ show_details
    /\ last_update > 0

----------------------------------------------------------------------------
(* C11: the writes of a refresh and the bounds of the terminal *)

\* a write that stays on its row of the terminal
InBounds(o) ==
    /\ 0 <= o.y /\ o.y < height
    /\ 0 <= o.x /\ o.x + Len(o.text) <= width

\* C11: every write display_header, display_processes and display_footer
\* issue targets a row below height and a span of columns that ends within
\* width: no write is refused by the terminal (curses.error), and no write
\* the terminal accepts runs past the last column
C11_WritesInBounds ==
    /\ error # "curses.error"
    /\ \A i \in 1..Len(writes) : InBounds(writes[i])

----------------------------------------------------------------------------
(* C12: the footer of a refresh *)

\* the footer is on the screen: the rule and, below it, the help text of the
\* mode
FooterShown(sd) ==
    \E i \in 1..Len(writes) :
       /\ writes[i].text = HelpText(sd)
       /\ writes[i].x = 0
       /\ \E j \in 1..Len(writes) :
             /\ writes[j].y = writes[i].y - 1
             /\ writes[j].x = 0
             /\ writes[j].text = Rule(width)

\* C12: when display_footer has returned in a refresh, the footer is drawn
\* and shows the mode that show_details holds, whatever the number of
\* processes
C12_FooterDrawn ==
    pc = "refresh" => FooterShown(show_details)

----------------------------------------------------------------------------
(* C13: the optional fields of the third line of system information *)

\* what get_system_info gives for the battery when no query gives a reading:
\* both commands failing, the first failing and the second silent, the first
\* silent
NoBatteryReading == {NA \o Percent, Percent, <<>>}

\* what it gives for the temperature when the query fails or is silent
NoTemperatureReading == {NA, DegreesC}

\* a field with the given label is on the screen
FieldShown(label) ==
    \E i \in 1..Len(writes) : StartsWith(writes[i].text, label)

\* C13: when display_header has returned in a refresh whose snapshot has no
\* battery reading, no battery field is on the screen, neither label nor
\* placeholder; the same for the temperature
C13_OptionalOmitted ==
    pc = "display_processes" =>
        /\ info.battery \in NoBatteryReading => ~FieldShown(BatteryLabel)
        /\ info.temperature \in NoTemperatureReading => ~FieldShown(TempLabel)

----------------------------------------------------------------------------
(* C14: what a fetch gives and the life of the loop *)

\* C14: no outcome of the fetch ends the loop: whatever get_system_info and
\* get_processes give, the draw of the refresh raises nothing of its own (the
\* terminal refusing a write is the matter of C11), so the loop is left by
\* the quit key alone
C14_FetchNeverEndsLoop ==
    pc = "raised" => error = "curses.error"

----------------------------------------------------------------------------
(* C15: one refresh an iteration, and no burst after a stall *)

\* C15: a refresh is entered only from the check of an iteration, which
\* follows the one poll of that iteration, and is followed by the sleep and
\* the next poll: at most one refresh an iteration; the time a refresh
\* records is the time of its check and is at least update_interval after the
\* time the refresh before it recorded, however long the loop was stalled
C15_NoBurst ==
    [][ /\ pc' = "clear" => pc = "check"
        /\ pc' = "check" => pc = "getch"
        /\ pc = "sleep" => pc' = "getch"
        /\ pc = "refresh" =>
              /\ pc' = "sleep"
              /\ last_update' = current_time
              /\ last_update' - last_update >= update_interval
      ]_vars

\* a check more than two intervals after the last refresh, the loop having
\* been stalled: the one refresh of this iteration is entered
C15_Witness ==
    /\ pc = "clear"
    /\ last_update > 0
    /\ current_time - last_update > 2 * update_interval

----------------------------------------------------------------------------
(* C16: one value of show_details in a frame *)

\* the steps of a refresh after the screen is cleared
Drawing == {"get_system_info", "get_processes", "display_header",
            "display_processes", "display_footer", "refresh"}

\* everything on the screen below the system information is of the mode m:
\* the table header, the columns of the rows, the mode of the footer
ScreenMode(m) ==
    \A i \in 1..Len(writes) :
       LET o == writes[i]
       IN  /\ o.y = StartRow =>
                 o.text = (IF m THEN DetailedHeader ELSE BasicHeader)
           /\ (o.y >= StartRow + 2 /\ o.x \in {34, 42, 52}) => m
           /\ (o.y >= StartRow + 2 /\ o.x = 26) =>
                 o.attr = (IF m THEN "BLUE" ELSE "GREEN")
           /\ (o.y >= StartRow + 2 /\ StartsWith(o.text, ModeLabel)) =>
                 o.text = ModeLabel \o (IF m THEN DetailedText ELSE BasicText)
                          \o HelpTail

\* C16: show_details keeps its value from the clearing of the screen to the
\* end of the draw; the rows fetched have the detailed fields only if it is
\* true, and the table header, the columns of every row and the mode of the
\* footer on the screen are those of that one value: no frame, complete or
\* cut short, mixes basic and detailed columns
C16_OneMode ==
    /\ [][(pc \in Drawing) => (show_details' = show_details)]_vars
    /\ [](pc \in Drawing \cup {"raised"} =>
             /\ ScreenMode(show_details)
             /\ pc \notin {"get_system_info", "get_processes"} =>
                   \A i \in 1..Len(processes) :
                      DetailKeys \subseteq DOMAIN processes[i] => show_details)
    /\ [](\E m \in BOOLEAN : ScreenMode(m))

\* a complete detailed frame: detailed header, detailed rows, detailed footer
C16_Witness ==
    /\ pc = "refresh"
    /\ show_details
    /\ rows_drawn # <<>>
    /\ \E i \in 1..Len(writes) : writes[i].x = 52 /\ writes[i].y = StartRow + 2
    /\ \E i \in 1..Len(writes) :
          writes[i].text = ModeLabel \o DetailedText \o HelpTail

----------------------------------------------------------------------------
(* C17: who changes show_details and process_sort *)

\* C17: show_details changes only in the input step, on a d or D; every step
\* of a refresh leaves it as it is, the fetch that falls back to the basic
\* query included; process_sort is "cpu" in every state
C17_OnlyInput ==
    /\ [][ /\ show_details' # show_details =>
                 (pc = "getch" /\ key' \in {Ord("d"), Ord("D")})
           /\ process_sort' = process_sort
         ]_vars
    /\ [](process_sort = "cpu")

\* in detailed mode the fetch has fallen back to the basic query: its rows
\* have the basic fields only, and show_details is still true
C17_Witness ==
    /\ pc = "display_header"
    /\ show_details
    /\ processes # <<>>
    /\ \A i \in 1..Len(processes) : ~(DetailKeys \subseteq DOMAIN processes[i])

----------------------------------------------------------------------------
(* C18: the poll between two refreshes *)

\* C18: a fetch starts only after the clearing that follows a due check, a
\* check only after a poll, and a poll only at the start of run() or after
\* the sleep that follows a check or a refresh: between the end of a refresh
\* and the start of the next fetch there is a poll, and one poll before each
\* check.  A step of a refresh in flight goes to the next step of the
\* refresh, or ends it by an exception, never to the end of the loop; the
\* poll after it that gives q or Q ends the loop with no fetch begun
C18_PollBetween ==
    [][ /\ pc' = "get_system_info" => pc = "clear"
        /\ pc' = "clear" => pc = "check"
        /\ pc' = "check" => pc = "getch"
        /\ pc' = "getch" => pc = "sleep"
        /\ pc' = "sleep" => pc \in {"check", "refresh"}
        /\ pc \in Drawing =>
              pc' \in (Drawing \cup {"sleep", "raised"}) /\ key' = key
        /\ (pc = "getch" /\ key' \in {Ord("q"), Ord("Q")}) =>
              (pc' = "done" /\ UNCHANGED <<info, processes, writes>>)
      ]_vars

\* a fetch lasted more than the interval, its refresh was completed, and the
\* q polled next ended the loop although a refresh was due again
C18_Witness ==
    /\ pc = "done"
    /\ key \in {Ord("q"), Ord("Q")}
    /\ last_update > 0
    /\ last_update = current_time
    /\ clock - last_update = SlowFetchTicks + SleepTicks
    /\ writes # <<>>

----------------------------------------------------------------------------
(* C19: a toggle and the screen *)

\* the table header of the mode m is among the writes w
HeaderIn(w, m) ==
    \E i \in 1..Len(w) :
       /\ w[i].y = StartRow
       /\ w[i].x = 0
       /\ w[i].text = (IF m THEN DetailedHeader ELSE BasicHeader)

\* C19: a poll that gives d or D negates show_details and draws nothing: the
\* screen and last_update are as before, so a screen that showed the table
\* of the mode now shows that of the other mode; the screen changes only in
\* the steps of a refresh, which a due check alone begins; and when
\* display_processes has returned in a refresh, the table on the screen is
\* that of show_details
C19_ToggleNoRedraw ==
    /\ [][ /\ (pc = "getch" /\ key' \in {Ord("d"), Ord("D")}) =>
                 /\ show_details' = ~show_details
                 /\ writes' = writes
                 /\ last_update' = last_update
                 /\ pc' = "check"
                 /\ HeaderIn(writes, show_details) =>
                       (HeaderIn(writes', ~show_details')
                        /\ ~HeaderIn(writes', show_details'))
           /\ writes' # writes => pc \in Drawing \cup {"clear"}
           /\ pc' = "clear" =>
                 (pc = "check" /\ current_time' - last_update >= update_interval)
         ]_vars
    /\ [](pc \in {"display_footer", "refresh"} =>
             (HeaderIn(writes, show_details) /\ ScreenMode(show_details)))

\* d was polled after a basic frame was drawn: the mode is detailed and the
\* screen still shows the basic table
C19_Witness ==
    /\ pc \in {"check", "sleep"}
    /\ key = Ord("d")
    /\ show_details
    /\ last_update > 0
    /\ HeaderIn(writes, FALSE)
    /\ ~HeaderIn(writes, TRUE)

----------------------------------------------------------------------------
(* C20: the time a refresh records *)

\* C20: current_time is read at the check and kept through the refresh,
\* whose last step records it in last_update, whatever the time the fetch and
\* the draw took; last_update never exceeds the clock and never decreases;
\* the clock never goes back, and a check made update_interval or more after
\* the recorded time begins a refresh, so a refresh that lasted an interval
\* is followed, one poll later, by another
C20_RecordedTime ==
    /\ [][ /\ pc = "check" => current_time' = clock
           /\ pc \in Drawing \cup {"clear"} => current_time' = current_time
           /\ pc = "refresh" => last_update' = current_time
           /\ last_update' # last_update => pc = "refresh"
           /\ last_update' >= last_update
           /\ clock' >= clock
           /\ (pc = "check" /\ clock - last_update >= update_interval) =>
                 pc' = "clear"
           /\ pc' = "clear" => pc = "check"
           /\ pc' = "check" => pc = "getch"
         ]_vars
    /\ [](last_update <= clock /\ last_update <= current_time)

\* the check right after a refresh whose fetch lasted more than the
\* interval: it is due again, measured from the check before that fetch
C20_Witness ==
    /\ pc = "clear"
    /\ last_update > 0
    /\ current_time - last_update = SlowFetchTicks + SleepTicks

====
